---- MODULE Spec2Model ----
(***************************************************************************)
(* Memocare reminder scheduler: the recurrence calculator                  *)
(* (calculateNextRun) and the cron-driven polling loop                     *)
(* (initializeScheduler) over the reminders table and the socket.io        *)
(* notification channel.                                                   *)
(*                                                                         *)
(* Time is a count of units since a Sunday 00:00 local time, in a zone     *)
(* with a fixed UTC offset (no daylight-saving shifts).  A minute holds    *)
(* UnitsPerMinute units, so a Date may fall strictly inside a minute.      *)
(***************************************************************************)
EXTENDS Integers, Sequences, FiniteSets, TLC

\* ------------------------------------------------------------------ bounds
UnitsPerMinute == 2
MaxTicks == 2
CalcDays == 7
MaxOwnerOps == 1
MaxContacts == 3
MaxChatMessages == 5

\* ------------------------------------------------------- Date arithmetic
UnitsPerHour == 60 * UnitsPerMinute
UnitsPerDay == 24 * UnitsPerHour

\* Date.prototype.getHours
getHours(d) == (d \div UnitsPerHour) % 24

\* Date.prototype.getDay: 0 is Sunday, the weekday of unit 0
getDay(d) == (d \div UnitsPerDay) % 7

\* Date.prototype.setHours(h, 0, 0, 0): same calendar day, minutes, seconds
\* and milliseconds zero; an hour of 24 carries into the next day
setHours(d, h) == (d - (d % UnitsPerDay)) + h * UnitsPerHour

\* Date.prototype.setDate(getDate() + k): k calendar days later, same time
setDate(d, k) == d + k * UnitsPerDay

\* ------------------------------------------------------ calculateNextRun
HOURLY == "0 * * * *"
DAILY == "0 9 * * *"
WEEKLY == "0 9 * * 1"

calculateNextRunNoRollover(scheduleCron, currentTime) ==
  CASE scheduleCron = HOURLY -> setHours(currentTime, getHours(currentTime) + 1)
    [] scheduleCron = DAILY -> setHours(currentTime, 9)
    [] scheduleCron = WEEKLY ->
         LET nextRun == setHours(currentTime, 9)
             dayOfWeek == getDay(nextRun)
             daysUntilMonday == IF dayOfWeek = 0 THEN 1 ELSE (8 - dayOfWeek) % 7
         IN  setDate(nextRun, daysUntilMonday)
    [] OTHER -> setDate(currentTime, 1)

calculateNextRunHourlyKeepMinutes(scheduleCron, currentTime) ==
  CASE scheduleCron = HOURLY -> currentTime + UnitsPerHour
    [] scheduleCron = DAILY ->
         LET nextRun == setHours(currentTime, 9)
         IN  IF nextRun <= currentTime THEN setDate(nextRun, 1) ELSE nextRun
    [] scheduleCron = WEEKLY ->
         LET nextRun == setHours(currentTime, 9)
             dayOfWeek == getDay(nextRun)
             daysUntilMonday == IF dayOfWeek = 0 THEN 1 ELSE (8 - dayOfWeek) % 7
         IN  IF dayOfWeek = 1 /\ nextRun <= currentTime
               THEN setDate(nextRun, 7)
               ELSE IF dayOfWeek # 1
                      THEN setDate(nextRun, daysUntilMonday)
                      ELSE nextRun
    [] OTHER -> setDate(currentTime, 1)

calculateNextRunDailyInclusive(scheduleCron, currentTime) ==
  CASE scheduleCron = HOURLY ->
         setHours(currentTime, getHours(currentTime) + 1)
    [] scheduleCron = DAILY ->
         LET nextRun == setHours(currentTime, 9)
         IN  IF nextRun < currentTime THEN setDate(nextRun, 1) ELSE nextRun
    [] scheduleCron = WEEKLY ->
         LET nextRun == setHours(currentTime, 9)
             dayOfWeek == getDay(nextRun)
             daysUntilMonday == IF dayOfWeek = 0 THEN 1 ELSE (8 - dayOfWeek) % 7
         IN  IF dayOfWeek = 1 /\ nextRun <= currentTime
               THEN setDate(nextRun, 7)
               ELSE IF dayOfWeek # 1
                      THEN setDate(nextRun, daysUntilMonday)
                      ELSE nextRun
    [] OTHER -> setDate(currentTime, 1)

calculateNextRunWeeklyOffByOne(scheduleCron, currentTime) ==
  CASE scheduleCron = HOURLY ->
         setHours(currentTime, getHours(currentTime) + 1)
    [] scheduleCron = DAILY ->
         LET nextRun == setHours(currentTime, 9)
         IN  IF nextRun <= currentTime THEN setDate(nextRun, 1) ELSE nextRun
    [] scheduleCron = WEEKLY ->
         LET nextRun == setHours(currentTime, 9)
             dayOfWeek == getDay(nextRun)
             daysUntilMonday == IF dayOfWeek = 0 THEN 1 ELSE (7 - dayOfWeek) % 7
         IN  IF dayOfWeek = 1 /\ nextRun <= currentTime
               THEN setDate(nextRun, 7)
               ELSE IF dayOfWeek # 1
                      THEN setDate(nextRun, daysUntilMonday)
                      ELSE nextRun
    [] OTHER -> setDate(currentTime, 1)

calculateNextRunFallbackNine(scheduleCron, currentTime) ==
  CASE scheduleCron = HOURLY ->
         setHours(currentTime, getHours(currentTime) + 1)
    [] scheduleCron = WEEKLY ->
         LET nextRun == setHours(currentTime, 9)
             dayOfWeek == getDay(nextRun)
             daysUntilMonday == IF dayOfWeek = 0 THEN 1 ELSE (8 - dayOfWeek) % 7
         IN  IF dayOfWeek = 1 /\ nextRun <= currentTime
               THEN setDate(nextRun, 7)
               ELSE IF dayOfWeek # 1
                      THEN setDate(nextRun, daysUntilMonday)
                      ELSE nextRun
    [] OTHER ->
         LET nextRun == setHours(currentTime, 9)
         IN  IF nextRun <= currentTime THEN setDate(nextRun, 1) ELSE nextRun

calculateNextRun(scheduleCron, currentTime) ==
  CASE scheduleCron = HOURLY ->
         setHours(currentTime, getHours(currentTime) + 1)
    [] scheduleCron = DAILY ->
         LET nextRun == setHours(currentTime, 9)
         IN  IF nextRun <= currentTime THEN setDate(nextRun, 1) ELSE nextRun
    [] scheduleCron = WEEKLY ->
         LET nextRun == setHours(currentTime, 9)
             dayOfWeek == getDay(nextRun)
             daysUntilMonday == IF dayOfWeek = 0 THEN 1 ELSE (8 - dayOfWeek) % 7
         IN  IF dayOfWeek = 1 /\ nextRun <= currentTime
               THEN setDate(nextRun, 7)
               ELSE IF dayOfWeek # 1
                      THEN setDate(nextRun, daysUntilMonday)
                      ELSE nextRun
    [] OTHER -> setDate(currentTime, 1)

\* the schedule_cron strings the reminders table can hold: the three the
\* form stores for recurring reminders, 'once', 'custom', and a string that
\* is none of them
Crons == {HOURLY, DAILY, WEEKLY, "once", "custom", "*/5 * * * *"}

\* ---------------------------------------------------------------- state
VARIABLES
  reminders,      \* the reminders table: id -> row
  clock,          \* wall-clock time of the latest cron firing
  started,        \* number of cron firings so far
  alive,          \* the server process is running
  pc,             \* per tick: where the async callback stands
  now,            \* per tick: const now = new Date()
  dueReminders,   \* per tick: the rows the due-query returned
  idx,            \* per tick: position of the for..of loop (1-based)
  err,            \* per tick: which step threw into the catch block
  emitted,        \* 'reminder:due' events handed to socket.io
  written,        \* updates the scheduler applied to the table
  calcCron,       \* calculateNextRun call: scheduleCron argument
  calcNow,        \* calculateNextRun call: currentTime argument
  calcResult,     \* calculateNextRun call: returned Date, -1 before it returns
  createdAs,      \* per id ever inserted: the id, owner and time of creation
  nextId,         \* the serial the next inserted row gets
  ownerOps,       \* number of PUT and DELETE requests handled so far
  lastPut,        \* the latest PUT request handled: id and body
  formZone,       \* reminder form: the browser's offset from the server's zone
  formSchedule,   \* reminder form: the option of the schedule select
  formClock,      \* reminder form: const now = new Date() in handleSubmit
  formNextRun,    \* reminder form: the nextRun it sends, -1 before the submit
  messages,       \* chatbot: the messages shown, oldest first
  input,          \* chatbot: the text of the input field
  isThinking,     \* chatbot: the thinking indicator is shown
  timers,         \* chatbot: pending setTimeout callbacks with what they captured
  medications,    \* chatbot: data of the medications query (default [])
  smsConfigured,  \* Twilio service: client and config are set
  smsContacts,    \* sendEmergencyAlert: the emergencyContacts argument
  smsPc,          \* sendEmergencyAlert: idle, loop or returned
  smsIdx,         \* sendEmergencyAlert: position of the for..of loop (1-based)
  smsResults,     \* sendEmergencyAlert: the results array
  smsSends,       \* calls of client.messages.create: recipient and outcome
  smsReturn       \* sendEmergencyAlert: the value returned

vars == <<reminders, clock, started, alive, pc, now, dueReminders, idx, err,
          emitted, written, calcCron, calcNow, calcResult, createdAs, nextId,
          ownerOps, lastPut, formZone, formSchedule, formClock, formNextRun,
          messages, input, isThinking, timers, medications, smsConfigured,
          smsContacts, smsPc, smsIdx, smsResults, smsSends, smsReturn>>

ownerVars == <<createdAs, nextId, ownerOps, lastPut>>

schedVars == <<reminders, clock, started, alive, pc, now, dueReminders, idx,
               err, emitted, written>>

calcVars == <<calcCron, calcNow, calcResult>>

formVars == <<formZone, formSchedule, formClock, formNextRun>>

\* the state of the application outside the scheduler and the reminder
\* routes
chatVars == <<messages, input, isThinking, timers, medications>>

smsVars == <<smsConfigured, smsContacts, smsPc, smsIdx, smsResults, smsSends,
             smsReturn>>

appVars == <<formVars, chatVars, smsVars>>

\* the ids of the rows of the reminders table (two rows, so that one tick
\* can find more than one reminder due)
Ids == {1, 2}
Ticks == 1 .. MaxTicks

\* ------------------------------------------- calculator specification
CalcTimes == 0 .. (CalcDays * UnitsPerDay - 1)

CalcIdle ==
  /\ calcCron = HOURLY
  /\ calcNow = 0
  /\ calcResult = -1

\* no reminder form submitted
FormIdle ==
  /\ formZone = 0
  /\ formSchedule = "hourly"
  /\ formClock = 0
  /\ formNextRun = -1

\* the chatbot page is not mounted
ChatIdle ==
  /\ messages = << >>
  /\ input = << >>
  /\ isThinking = FALSE
  /\ timers = << >>
  /\ medications = << >>

\* no emergency alert requested
SmsIdle ==
  /\ smsConfigured = FALSE
  /\ smsContacts = << >>
  /\ smsPc = "idle"
  /\ smsIdx = 0
  /\ smsResults = << >>
  /\ smsSends = << >>
  /\ smsReturn = << >>

AppIdle == FormIdle /\ ChatIdle /\ SmsIdle

SchedIdle ==
  /\ reminders = [i \in Ids |-> [id |-> i, user_id |-> 1, title |-> "t",
                                 type |-> "task", schedule_cron |-> "once",
                                 next_run_at |-> 0, active |-> FALSE]]
  /\ clock = 0
  /\ started = 0
  /\ alive = TRUE
  /\ pc = [t \in Ticks |-> "idle"]
  /\ now = [t \in Ticks |-> 0]
  /\ dueReminders = [t \in Ticks |-> <<>>]
  /\ idx = [t \in Ticks |-> 0]
  /\ err = [t \in Ticks |-> "none"]
  /\ emitted = {}
  /\ written = {}

\* no request handled yet; createdAs holds the given rows' own id and owner
OwnerIdle ==
  /\ createdAs = [i \in DOMAIN reminders |->
                    [id |-> reminders[i].id, user_id |-> reminders[i].user_id,
                     at |-> 0]]
  /\ nextId = Cardinality(DOMAIN reminders) + 1
  /\ ownerOps = 0
  /\ lastPut = [id |-> 0, updates |-> [f \in {} |-> TRUE]]

InitCalc ==
  /\ calcCron \in Crons
  /\ calcNow \in CalcTimes
  /\ calcResult = -1
  /\ SchedIdle
  /\ OwnerIdle
  /\ AppIdle

CallCalculateNextRun ==
  /\ calcResult = -1
  /\ calcResult' = calculateNextRun(calcCron, calcNow)
  /\ UNCHANGED <<calcCron, calcNow>>
  /\ UNCHANGED schedVars
  /\ UNCHANGED ownerVars
  /\ UNCHANGED appVars

NextCalc == CallCalculateNextRun

SpecCalc == InitCalc /\ [][NextCalc]_vars

\* C4: for every recurrence string and every reference time, the Date
\* calculateNextRun returns is strictly greater than the reference time.
C4_NextRunAfterNow == calcResult # -1 => calcResult > calcNow

\* C4 witness: a weekly call on a Monday at exactly 09:00 has returned.
C4_Witness ==
  /\ calcResult # -1
  /\ calcCron = WEEKLY
  /\ getDay(calcNow) = 1
  /\ calcNow = setHours(calcNow, 9)

\* ------------------------------------------------- scheduler: the table
\* the server starts on a Monday at 08:59, so the first minute boundary the
\* cron task sees is Monday 09:00
StartClock == ((24 + 8) * 60 + 59) * UnitsPerMinute

FirstBoundary == StartClock + UnitsPerMinute

\* next_run_at values of the rows found in the table at start: one unit
\* before the first boundary, exactly on it, and one unit after it
StartRuns == {FirstBoundary - 1, FirstBoundary, FirstBoundary + 1}

UserOf(i) == 1 + (i % 2)

TitleOf(i) == <<"title", i>>

TypeOf(i) == IF i % 2 = 0 THEN "medication" ELSE "task"

InitReminders ==
  [Ids -> [schedule_cron : Crons, next_run_at : StartRuns, active : BOOLEAN]]

Row(i, f) ==
  [id |-> i, user_id |-> UserOf(i), title |-> TitleOf(i), type |-> TypeOf(i),
   schedule_cron |-> f.schedule_cron, next_run_at |-> f.next_run_at,
   active |-> f.active]

Init ==
  /\ \E f \in InitReminders : reminders = [i \in Ids |-> Row(i, f[i])]
  /\ clock = StartClock
  /\ started = 0
  /\ alive = TRUE
  /\ pc = [t \in Ticks |-> "idle"]
  /\ now = [t \in Ticks |-> 0]
  /\ dueReminders = [t \in Ticks |-> <<>>]
  /\ idx = [t \in Ticks |-> 0]
  /\ err = [t \in Ticks |-> "none"]
  /\ emitted = {}
  /\ written = {}
  /\ CalcIdle
  /\ OwnerIdle
  /\ AppIdle

\* ----------------------------------------------- scheduler: one tick
\* db.select().from(reminders).where(and(eq(active, true),
\* lte(next_run_at, now))): the ids of the rows the query matches
dueQueryStrict(table, asOf) ==
  {i \in DOMAIN table : table[i].active = TRUE /\ table[i].next_run_at < asOf}

dueQueryAnyActive(table, asOf) ==
  {i \in DOMAIN table : table[i].next_run_at <= asOf}

dueQuery(table, asOf) ==
  {i \in DOMAIN table : table[i].active = TRUE /\ table[i].next_run_at <= asOf}

\* the rows come back in an order the query does not fix
Orders(S) ==
  {s \in [1 .. Cardinality(S) -> S] : \A a, b \in DOMAIN s : a # b => s[a] # s[b]}

\* the minute boundary that follows time d
NextBoundary(d) == ((d \div UnitsPerMinute) + 1) * UnitsPerMinute

\* io.to(`user_${user_id}`)
Room(user_id) == <<"user_", user_id>>

\* catch (error) { console.error(...) }: the callback ends, nothing escapes
CatchRethrow(t, step) ==
  /\ pc' = [pc EXCEPT ![t] = "caught"]
  /\ err' = [err EXCEPT ![t] = step]
  /\ alive' = FALSE

Catch(t, step) ==
  /\ pc' = [pc EXCEPT ![t] = "caught"]
  /\ err' = [err EXCEPT ![t] = step]
  /\ alive' = alive

\* node-cron reaches a minute boundary and calls the callback, whether or
\* not an earlier call is still awaiting the database: now = new Date()
\* (taken on the boundary: the callback's latency is below one time unit),
\* then the due-query is issued
CronFire(t) ==
  /\ alive
  /\ t = started + 1
  /\ pc[t] = "idle"
  /\ clock' = NextBoundary(clock)
  /\ started' = t
  /\ now' = [now EXCEPT ![t] = clock']
  /\ pc' = [pc EXCEPT ![t] = "query"]
  /\ UNCHANGED <<reminders, alive, dueReminders, idx, err, emitted, written>>
  /\ UNCHANGED calcVars
  /\ UNCHANGED appVars
  /\ UNCHANGED ownerVars

QueryOkNotifyEmpty(t) ==
  /\ pc[t] = "query"
  /\ \E rows \in Orders(dueQuery(reminders, now[t])) :
       /\ dueReminders' = [dueReminders EXCEPT
                             ![t] = [k \in DOMAIN rows |-> reminders[rows[k]]]]
       /\ pc' = [pc EXCEPT ![t] = IF Len(rows) > 0 THEN "emit" ELSE "done"]
       /\ idx' = [idx EXCEPT ![t] = IF Len(rows) > 0 THEN 1 ELSE 0]
       /\ emitted' = IF Len(rows) > 0 THEN emitted
                      ELSE emitted \cup {[tick |-> t, room |-> Room(0), id |-> 0,
                                          title |-> "none", type |-> "none"]}
  /\ UNCHANGED <<reminders, clock, started, alive, now, err, written>>
  /\ UNCHANGED calcVars
  /\ UNCHANGED appVars
  /\ UNCHANGED ownerVars

\* the database answers the due-query
QueryOk(t) ==
  /\ pc[t] = "query"
  /\ \E rows \in Orders(dueQuery(reminders, now[t])) :
       /\ dueReminders' = [dueReminders EXCEPT
                             ![t] = [k \in DOMAIN rows |-> reminders[rows[k]]]]
       /\ pc' = [pc EXCEPT ![t] = IF Len(rows) > 0 THEN "emit" ELSE "done"]
       /\ idx' = [idx EXCEPT ![t] = IF Len(rows) > 0 THEN 1 ELSE 0]
  /\ UNCHANGED <<reminders, clock, started, alive, now, err, emitted, written>>
  /\ UNCHANGED calcVars
  /\ UNCHANGED appVars
  /\ UNCHANGED ownerVars

QueryFailContinue(t) ==
  /\ pc[t] = "query"
  /\ err' = [err EXCEPT ![t] = "query"]
  /\ dueReminders' = [dueReminders EXCEPT
        ![t] = [k \in 1 .. 1 |-> reminders[CHOOSE i \in Ids : TRUE]]]
  /\ pc' = [pc EXCEPT ![t] = "emit"]
  /\ idx' = [idx EXCEPT ![t] = 1]
  /\ UNCHANGED <<reminders, clock, started, alive, now, emitted, written>>
  /\ UNCHANGED calcVars
  /\ UNCHANGED appVars
  /\ UNCHANGED ownerVars

\* the due-query rejects
QueryFail(t) ==
  /\ pc[t] = "query"
  /\ Catch(t, "query")
  /\ UNCHANGED <<reminders, clock, started, now, dueReminders, idx, emitted,
                 written>>
  /\ UNCHANGED calcVars
  /\ UNCHANGED appVars
  /\ UNCHANGED ownerVars

EmitToIdRoom(t) ==
  /\ pc[t] = "emit"
  /\ LET reminder == dueReminders[t][idx[t]]
     IN  emitted' = emitted \cup
           {[tick |-> t, room |-> Room(reminder.id), id |-> reminder.id,
             title |-> reminder.title, type |-> reminder.type]}
  /\ pc' = [pc EXCEPT ![t] = "write"]
  /\ UNCHANGED <<reminders, clock, started, alive, now, dueReminders, idx,
                 err, written>>
  /\ UNCHANGED calcVars
  /\ UNCHANGED appVars
  /\ UNCHANGED ownerVars

\* loop body, first half: emit 'reminder:due' to the owner's room, then
\* issue the update and await it
Emit(t) ==
  /\ pc[t] = "emit"
  /\ LET reminder == dueReminders[t][idx[t]]
     IN  emitted' = emitted \cup
           {[tick |-> t, room |-> Room(reminder.user_id), id |-> reminder.id,
             title |-> reminder.title, type |-> reminder.type]}
  /\ pc' = [pc EXCEPT ![t] = "write"]
  /\ UNCHANGED <<reminders, clock, started, alive, now, dueReminders, idx,
                 err, written>>
  /\ UNCHANGED calcVars
  /\ UNCHANGED appVars
  /\ UNCHANGED ownerVars

\* io.to(...).emit(...) throws
EmitFail(t) ==
  /\ pc[t] = "emit"
  /\ Catch(t, "emit")
  /\ UNCHANGED <<reminders, clock, started, now, dueReminders, idx, emitted,
                 written>>
  /\ UNCHANGED calcVars
  /\ UNCHANGED appVars
  /\ UNCHANGED ownerVars

\* the update of a one-time reminder: .set({ active: false }).where(eq(id));
\* a row deleted meanwhile matches nothing
DeactivateAndReset(table, reminder, asOf) ==
  [table EXCEPT ![reminder.id].active = FALSE,
                ![reminder.id].next_run_at = asOf]

DeactivateByDelete(table, reminder, asOf) ==
  [i \in DOMAIN table \ {reminder.id} |-> table[i]]

Deactivate(table, reminder, asOf) ==
  IF reminder.id \in DOMAIN table
    THEN [table EXCEPT ![reminder.id].active = FALSE]
    ELSE table

\* the update of a recurring reminder: .set({ next_run_at: nextRun })
RescheduleFromStored(table, reminder, asOf) ==
  [table EXCEPT ![reminder.id].next_run_at =
     calculateNextRun(reminder.schedule_cron, reminder.next_run_at)]

RescheduleFromClock(table, reminder, asOf) ==
  [table EXCEPT ![reminder.id].next_run_at =
     calculateNextRun(reminder.schedule_cron, clock)]

RescheduleByOnePeriod(table, reminder, asOf) ==
  IF reminder.id \in DOMAIN table
    THEN [table EXCEPT ![reminder.id].next_run_at =
            calculateNextRun(reminder.schedule_cron, reminder.next_run_at)]
    ELSE table

RescheduleAndActivate(table, reminder, asOf) ==
  IF reminder.id \in DOMAIN table
    THEN [table EXCEPT ![reminder.id].next_run_at =
                         calculateNextRun(reminder.schedule_cron, asOf),
                       ![reminder.id].active = TRUE]
    ELSE table

Reschedule(table, reminder, asOf) ==
  IF reminder.id \in DOMAIN table
    THEN [table EXCEPT ![reminder.id].next_run_at =
            calculateNextRun(reminder.schedule_cron, asOf)]
    ELSE table

IsOneTime(reminder) ==
  reminder.schedule_cron = "once" \/ reminder.schedule_cron = "custom"

WriteOkAndReturn(t) ==
  /\ pc[t] = "write"
  /\ LET reminder == dueReminders[t][idx[t]]
     IN  /\ reminders' = IF IsOneTime(reminder)
                           THEN Deactivate(reminders, reminder, now[t])
                           ELSE Reschedule(reminders, reminder, now[t])
         /\ written' = written \cup {[tick |-> t, id |-> reminder.id]}
  /\ pc' = [pc EXCEPT ![t] = "done"]
  /\ idx' = idx
  /\ UNCHANGED <<clock, started, alive, now, dueReminders, err, emitted>>
  /\ UNCHANGED calcVars
  /\ UNCHANGED appVars
  /\ UNCHANGED ownerVars

\* loop body, second half: the database applies the update; the loop moves
\* to the next row or the callback returns
WriteOk(t) ==
  /\ pc[t] = "write"
  /\ LET reminder == dueReminders[t][idx[t]]
     IN  /\ reminders' = IF IsOneTime(reminder)
                           THEN Deactivate(reminders, reminder, now[t])
                           ELSE Reschedule(reminders, reminder, now[t])
         /\ written' = written \cup {[tick |-> t, id |-> reminder.id]}
  /\ pc' = [pc EXCEPT ![t] = IF idx[t] < Len(dueReminders[t])
                                THEN "emit" ELSE "done"]
  /\ idx' = [idx EXCEPT ![t] = IF idx[t] < Len(dueReminders[t])
                                  THEN idx[t] + 1 ELSE idx[t]]
  /\ UNCHANGED <<clock, started, alive, now, dueReminders, err, emitted>>
  /\ UNCHANGED calcVars
  /\ UNCHANGED appVars
  /\ UNCHANGED ownerVars

\* the update rejects
WriteFail(t) ==
  /\ pc[t] = "write"
  /\ Catch(t, "write")
  /\ UNCHANGED <<reminders, clock, started, now, dueReminders, idx, emitted,
                 written>>
  /\ UNCHANGED calcVars
  /\ UNCHANGED appVars
  /\ UNCHANGED ownerVars

Next ==
  \E t \in Ticks :
    \/ CronFire(t)
    \/ QueryOk(t)
    \/ QueryFail(t)
    \/ Emit(t)
    \/ EmitFail(t)
    \/ WriteOk(t)
    \/ WriteFail(t)

Spec == Init /\ [][Next]_vars

\* ------------------------------------------------------------- properties
InFlight(t) == pc[t] \in {"query", "emit", "write"}

\* the step in which the database answers tick t's due-query
QueryAnswered(t) == pc[t] = "query" /\ pc'[t] \in {"emit", "done"}

\* the step in which the database applies tick t's update of the row at idx
UpdateApplied(t) == pc[t] = "write" /\ pc'[t] \in {"emit", "done"}

RowIds(rows) == {rows[k].id : k \in DOMAIN rows}

\* C1: within one tick, the store write for a fired item completes before
\* the 'reminder:due' event for that item is published, so every published
\* event has its write already applied.
C1_WriteBeforePublish ==
  \A e \in emitted : \E w \in written : w.tick = e.tick /\ w.id = e.id

\* C2: when the write or the publish for one due item fails, every other
\* item the tick's due-query returned is still published and written by
\* that tick.
C2_FailureConfined ==
  \A t \in Ticks :
    (pc[t] = "caught" /\ err[t] \in {"emit", "write"}) =>
      \A k \in DOMAIN dueReminders[t] :
        k # idx[t] =>
          /\ \E e \in emitted : e.tick = t /\ e.id = dueReminders[t][k].id
          /\ \E w \in written : w.tick = t /\ w.id = dueReminders[t][k].id

\* C3: no two scheduler ticks are ever in flight at the same time.
C3_NoOverlap == Cardinality({t \in Ticks : InFlight(t)}) <= 1

\* C5: every row a due-query returns was active when the query ran, and
\* the scheduler publishes events and writes schedules only for rows its
\* own due-query returned; an inactive row gets neither.
C5_InactiveNeverSelected ==
  /\ \A t \in Ticks : \A k \in DOMAIN dueReminders[t] :
       dueReminders[t][k].active = TRUE
  /\ \A e \in emitted : e.id \in RowIds(dueReminders[e.tick])
  /\ \A w \in written : w.id \in RowIds(dueReminders[w.tick])

\* C5 witness: a tick has queried while an inactive row was overdue; the
\* row is not among the returned rows and no scheduler write ever touched it.
C5_Witness ==
  \E t \in Ticks : \E i \in Ids :
    /\ pc[t] \in {"emit", "write", "done"}
    /\ Len(dueReminders[t]) > 0
    /\ reminders[i].active = FALSE
    /\ reminders[i].next_run_at < now[t]
    /\ i \notin RowIds(dueReminders[t])
    /\ \A w \in written : w.id # i

\* C6: the update that follows the firing of a 'once' reminder leaves the
\* row inactive and its next_run_at as it was before the update.
C6_OnceDeactivated ==
  [][\A t \in Ticks :
       (UpdateApplied(t) /\ dueReminders[t][idx[t]].schedule_cron = "once") =>
         LET i == dueReminders[t][idx[t]].id
         IN  /\ reminders'[i].active = FALSE
             /\ reminders'[i].next_run_at = reminders[i].next_run_at]_vars

\* C6 witness: a 'once' reminder has been fired and written; it is inactive
\* and still holds the next_run_at the due-query read.
C6_Witness ==
  \E w \in written : \E k \in DOMAIN dueReminders[w.tick] :
    /\ dueReminders[w.tick][k].id = w.id
    /\ dueReminders[w.tick][k].schedule_cron = "once"
    /\ reminders[w.id].active = FALSE
    /\ reminders[w.id].next_run_at = dueReminders[w.tick][k].next_run_at

\* C7: once a tick has written the outcome of an item, a due-query with the
\* same now no longer matches it: it is inactive or scheduled after now.
C7_NotDueAfterWrite ==
  [][\A t \in Ticks :
       UpdateApplied(t) =>
         LET i == dueReminders[t][idx[t]].id
         IN  \/ reminders'[i].active = FALSE
             \/ reminders'[i].next_run_at > now[t]]_vars

\* C7 witness: a recurring reminder that was due has been written by a tick
\* and is still active, scheduled after that tick's now.
C7_Witness ==
  \E w \in written :
    /\ reminders[w.id].active = TRUE
    /\ reminders[w.id].next_run_at > now[w.tick]
    /\ reminders[w.id].schedule_cron = DAILY

\* C8: the due-query of a tick returns exactly the rows that are active
\* with next_run_at <= now, a row with next_run_at = now included.
C8_DueQueryExact ==
  [][\A t \in Ticks :
       QueryAnswered(t) =>
         /\ RowIds(dueReminders'[t]) =
              {i \in Ids : reminders[i].active /\ ~(reminders[i].next_run_at > now[t])}
         /\ \A k \in DOMAIN dueReminders'[t] :
              dueReminders'[t][k] = reminders[dueReminders'[t][k].id]
         /\ Len(dueReminders'[t]) = Cardinality(RowIds(dueReminders'[t]))]_vars

\* C8 witness: a due-query has just returned a row whose next_run_at is
\* exactly the tick's now.
C8_Witness ==
  \E t \in Ticks : \E k \in DOMAIN dueReminders[t] :
    /\ pc[t] = "emit"
    /\ idx[t] = 1
    /\ dueReminders[t][k].next_run_at = now[t]

\* C9: an error caught inside a tick does not stop the scheduler: the
\* process stays up and the next minute's cron firing remains enabled.
C9_ErrorsDoNotStopScheduler ==
  \A t \in Ticks :
    pc[t] = "caught" =>
      /\ alive
      /\ (started < MaxTicks => ENABLED CronFire(started + 1))

\* C9 witness: the latest tick ended in the catch block after a failed
\* update and another cron firing is still to come.
C9_Witness ==
  \E t \in Ticks :
    /\ pc[t] = "caught"
    /\ err[t] = "write"
    /\ started = t
    /\ t < MaxTicks

\* C10: a tick whose due-query failed publishes nothing and writes nothing,
\* and the failing step leaves every row of the table as it was.
C10_QueryFailureNoEffects ==
  /\ [](\A t \in Ticks :
          err[t] = "query" =>
            /\ \A e \in emitted : e.tick # t
            /\ \A w \in written : w.tick # t)
  /\ [][\A t \in Ticks :
          (pc[t] = "query" /\ err'[t] = "query") =>
            /\ reminders' = reminders
            /\ emitted' = emitted
            /\ written' = written]_vars

\* C10 witness: the first tick's due-query failed while a row was due; the
\* row is still due, unchanged, when the second tick has started.
C10_Witness ==
  \E i \in Ids :
    /\ err[1] = "query"
    /\ pc[2] = "query"
    /\ reminders[i].active = TRUE
    /\ reminders[i].next_run_at <= now[1]
    /\ emitted = {}
    /\ written = {}

\* C11: when the publish of an item's due-event fails, the item's schedule
\* has already been persisted by that tick for this firing.
C11_PersistedBeforeFailedPublish ==
  \A t \in Ticks :
    (pc[t] = "caught" /\ err[t] = "emit") =>
      \E w \in written : w.tick = t /\ w.id = dueReminders[t][idx[t]].id

\* C12: a tick whose due-query returned no row publishes no event and
\* writes nothing to the table.
C12_EmptyTickNoEffects ==
  \A t \in Ticks :
    (pc[t] # "idle" /\ pc[t] # "query" /\ Len(dueReminders[t]) = 0) =>
      /\ \A e \in emitted : e.tick # t
      /\ \A w \in written : w.tick # t
      /\ pc[t] \in {"done", "caught"}

\* C12 witness: the first tick found nothing due (the only overdue row is
\* inactive) and has returned; nothing was published or written.
C12_Witness ==
  /\ pc[1] = "done"
  /\ Len(dueReminders[1]) = 0
  /\ \E i \in Ids : ~reminders[i].active /\ reminders[i].next_run_at <= now[1]
  /\ emitted = {}
  /\ written = {}

\* the row tick t is processing
Current(t) == dueReminders[t][idx[t]]

OneCalendarDay == 24 * 60 * UnitsPerMinute

\* C13: the firing of a due item whose recurrence kind is none of once,
\* hourly, daily-at and weekly-at sets next_run_at to now plus one calendar
\* day and keeps the item active.
C13_UnknownKindAdvancesOneDay ==
  [][\A t \in Ticks :
       (UpdateApplied(t)
          /\ Current(t).schedule_cron \notin {"once", HOURLY, DAILY, WEEKLY}) =>
         /\ reminders'[Current(t).id].next_run_at = now[t] + OneCalendarDay
         /\ reminders'[Current(t).id].active = TRUE]_vars

\* C13 as amended: the same for every schedule_cron that is none of 'once',
\* 'custom' and the three known cron strings ('custom' is a one-time kind).
C13_UnknownKindButCustom ==
  [][\A t \in Ticks :
       (UpdateApplied(t)
          /\ Current(t).schedule_cron \notin
               {"once", "custom", HOURLY, DAILY, WEEKLY}) =>
         /\ reminders'[Current(t).id].next_run_at = now[t] + OneCalendarDay
         /\ reminders'[Current(t).id].active = TRUE]_vars

\* C13 witness: a reminder with an unknown cron string was fired and is now
\* active and scheduled one calendar day after the tick's now.
C13_Witness ==
  \E w \in written :
    /\ reminders[w.id].schedule_cron \notin
         {"once", "custom", HOURLY, DAILY, WEEKLY}
    /\ reminders[w.id].active = TRUE
    /\ reminders[w.id].next_run_at = now[w.tick] + OneCalendarDay

\* C17: the update of a recurring reminder sets next_run_at to
\* calculateNextRun(schedule_cron, now) for the tick's own now and changes
\* nothing else in the table; the row stays active.
C17_RescheduleOnly ==
  [][\A t \in Ticks :
       (UpdateApplied(t) /\ Current(t).schedule_cron \notin {"once", "custom"}) =>
         /\ reminders' =
              [reminders EXCEPT ![Current(t).id].next_run_at =
                 calculateNextRun(Current(t).schedule_cron, now[t])]
         /\ reminders'[Current(t).id].active = TRUE]_vars

\* C17 witness: an hourly reminder was fired at Monday 09:00 and now runs
\* next at 10:00, active, with its owner, title, type and schedule intact.
C17_Witness ==
  \E w \in written :
    /\ now[w.tick] = FirstBoundary
    /\ reminders[w.id] =
         [id |-> w.id, user_id |-> UserOf(w.id), title |-> TitleOf(w.id),
          type |-> TypeOf(w.id), schedule_cron |-> HOURLY,
          next_run_at |-> FirstBoundary + 60 * UnitsPerMinute, active |-> TRUE]

\* calendar parts of a time, written out for the properties
DayStart(d) == d - (d % (24 * 60 * UnitsPerMinute))

HourStart(d) == d - (d % (60 * UnitsPerMinute))

Weekday(d) == (d \div (24 * 60 * UnitsPerMinute)) % 7

NineOClock(d) == DayStart(d) + 9 * 60 * UnitsPerMinute

\* C14: for the hourly recurrence the next run is the top of the hour that
\* follows now's hour: minutes, seconds and milliseconds zero, one hour
\* after the start of now's hour (23:xx gives 00:00 of the next day).
C14_HourlyTopOfNextHour ==
  (calcResult # -1 /\ calcCron = HOURLY) =>
    /\ calcResult = HourStart(calcNow) + 60 * UnitsPerMinute
    /\ calcResult % (60 * UnitsPerMinute) = 0

\* C14 witness: an hourly call at 23:59 and a fraction has returned 00:00
\* of the next day.
C14_Witness ==
  /\ calcCron = HOURLY
  /\ calcNow = DayStart(calcNow) + (23 * 60 + 59) * UnitsPerMinute + 1
  /\ calcResult = DayStart(calcNow) + OneCalendarDay

\* C15: for the daily recurrence (daily at 09:00) the next run is today at
\* 09:00:00.000 when that is strictly after now, otherwise tomorrow at
\* 09:00:00.000; at exactly 09:00 it is tomorrow.
C15_DailyTodayOrTomorrow ==
  (calcResult # -1 /\ calcCron = DAILY) =>
    calcResult = IF NineOClock(calcNow) > calcNow
                   THEN NineOClock(calcNow)
                   ELSE NineOClock(calcNow) + OneCalendarDay

\* C15 witness: a daily call at exactly 09:00 has returned 09:00 of the
\* next day.
C15_Witness ==
  /\ calcCron = DAILY
  /\ calcNow = NineOClock(calcNow)
  /\ calcResult = calcNow + OneCalendarDay

\* C16: for the weekly recurrence (Monday 09:00) the next run is the
\* earliest Monday 09:00 strictly after now: today on a Monday before
\* 09:00, seven days later on a Monday at or after 09:00, otherwise one to
\* six days ahead; the result always falls on a Monday.
C16_WeeklyNextMonday ==
  (calcResult # -1 /\ calcCron = WEEKLY) =>
    /\ Weekday(calcResult) = 1
    /\ calcResult = NineOClock(calcResult)
    /\ calcResult > calcNow
    /\ calcResult - 7 * OneCalendarDay <= calcNow
    /\ (Weekday(calcNow) = 1 /\ calcNow < NineOClock(calcNow)) =>
         calcResult = NineOClock(calcNow)
    /\ (Weekday(calcNow) = 1 /\ calcNow >= NineOClock(calcNow)) =>
         calcResult = NineOClock(calcNow) + 7 * OneCalendarDay
    /\ Weekday(calcNow) # 1 =>
         \E k \in 1 .. 6 : calcResult = NineOClock(calcNow) + k * OneCalendarDay

\* C16 witness: a weekly call on a Sunday evening has returned 09:00 of the
\* Monday one day ahead.
C16_Witness ==
  /\ calcCron = WEEKLY
  /\ Weekday(calcNow) = 0
  /\ calcNow > NineOClock(calcNow)
  /\ calcResult = NineOClock(calcNow) + OneCalendarDay

\* C21: every published event carries the id, title and type of a row that
\* the same tick's due-query returned and is addressed to the room of that
\* row's owner, user_<user_id>, and to no other room; no event is published
\* for a row the query did not return.
C21_EventMatchesReturnedRow ==
  \A e \in emitted :
    /\ \E k \in DOMAIN dueReminders[e.tick] :
         LET row == dueReminders[e.tick][k]
         IN  /\ e.id = row.id
             /\ e.title = row.title
             /\ e.type = row.type
             /\ e.room = <<"user_", row.user_id>>
    /\ \A f \in emitted : (f.tick = e.tick /\ f.id = e.id) => f.room = e.room

\* C21 witness: one tick has published the events of two reminders of two
\* different owners, each to its own room.
C21_Witness ==
  \E e, f \in emitted :
    /\ e.tick = f.tick
    /\ e.id # f.id
    /\ e.room = <<"user_", reminders[e.id].user_id>>
    /\ f.room = <<"user_", reminders[f.id].user_id>>
    /\ e.room # f.room

\* a shutdown request: a step of the program after which no cron firing can
\* start a tick, and which leaves every tick in flight where it stands, free
\* to run to completion
ShutdownRequest ==
  /\ Next
  /\ alive' = FALSE
  /\ \A t \in Ticks : InFlight(t) => pc'[t] = pc[t]

\* C20: the scheduler supports a shutdown request: whenever a tick is in
\* flight, a request can be made after which the tick in flight runs on
\* and no further tick starts.
C20_ShutdownSupported ==
  (\E t \in Ticks : InFlight(t)) => ENABLED ShutdownRequest

\* ------------------------------------------------ owner requests
\* the users with a session
Users == {1, 2}

\* the options of the schedule select of the reminder form
Schedules == {"hourly", "daily", "weekly", "custom"}

\* Reminders.handleSubmit: the schedule_cron the form sends
handleSubmitCron(schedule) ==
  CASE schedule = "custom" -> "once"
    [] schedule = "hourly" -> HOURLY
    [] schedule = "daily" -> DAILY
    [] schedule = "weekly" -> WEEKLY
    [] OTHER -> DAILY

\* the browser's local time is zone units ahead of the server's local time:
\* the Date methods of the form run in the browser's zone
Zones == {0, 330 * UnitsPerMinute}

getHoursIn(zone, d) == getHours(d + zone)

getDayIn(zone, d) == getDay(d + zone)

setHoursIn(zone, d, h) == setHours(d + zone, h) - zone

\* Reminders.handleSubmit: the next_run_at the form sends, computed at time
\* formNow by a browser in the given zone
handleSubmitNextRunIn(zone, schedule, formNow, customDateTime) ==
  CASE schedule = "custom" -> customDateTime
    [] schedule = "hourly" ->
         setHoursIn(zone, formNow, getHoursIn(zone, formNow) + 1)
    [] schedule = "daily" ->
         LET nextRun == setHoursIn(zone, formNow, 9)
         IN  IF nextRun <= formNow THEN setDate(nextRun, 1) ELSE nextRun
    [] schedule = "weekly" ->
         LET nextRun == setHoursIn(zone, formNow, 9)
             dayOfWeek == getDayIn(zone, nextRun)
             daysUntilMonday == IF dayOfWeek = 0 THEN 1 ELSE (8 - dayOfWeek) % 7
         IN  IF dayOfWeek = 1 /\ nextRun <= formNow
               THEN setDate(nextRun, 7)
               ELSE IF dayOfWeek # 1
                      THEN setDate(nextRun, daysUntilMonday)
                      ELSE nextRun
    [] OTHER -> setDate(formNow, 1)

\* the same for a browser in the server's zone
handleSubmitNextRun(schedule, formNow, customDateTime) ==
  handleSubmitNextRunIn(0, schedule, formNow, customDateTime)

\* Reminders.handleSubmit: the form sends nothing for a custom time that is
\* not in the future of the client's clock
handleSubmitSends(schedule, formNow, customDateTime) ==
  schedule = "custom" => customDateTime > formNow

\* the time between the submit on the client and the handling of the POST
\* on the server: none, or a minute
Latencies == {0, UnitsPerMinute}

\* the custom times an owner picks around the current time
CustomTimes == {clock - 1, clock + 1, clock + UnitsPerMinute}

\* storage.createReminder: insert the row under the next serial id
createReminder(table, id, data) ==
  [i \in DOMAIN table \cup {id} |->
     IF i = id
       THEN [id |-> id, user_id |-> data.user_id, title |-> data.title,
             type |-> data.type, schedule_cron |-> data.schedule_cron,
             next_run_at |-> data.next_run_at, active |-> data.active]
       ELSE table[i]]

\* the columns an edit may set: label, category, recurrence, next run, active
MutableColumns == {"title", "type", "schedule_cron", "next_run_at", "active"}

updateReminderAllColumns(table, id, updates) ==
  IF id \in DOMAIN table
    THEN [table EXCEPT ![id] =
            [f \in DOMAIN @ |-> IF f \in DOMAIN updates THEN updates[f] ELSE @[f]]]
    ELSE table

\* storage.updateReminder: set the mutable columns the body names on the
\* row with that id; id and owner stay as created
updateReminder(table, id, updates) ==
  IF id \in DOMAIN table
    THEN [table EXCEPT ![id] =
            [f \in DOMAIN @ |->
               IF f \in DOMAIN updates /\ f \in MutableColumns
                 THEN updates[f] ELSE @[f]]]
    ELSE table

\* storage.deleteReminder
deleteReminder(table, id) == [i \in DOMAIN table \ {id} |-> table[i]]

\* the form is submitted on the client at clock - latency; POST
\* /api/reminders handles it at clock: body parsed, user_id taken from the
\* session, next_run_at = new Date(body.next_run_at), row inserted
PostReminder(u, schedule, latency, customDateTime) ==
  /\ alive
  /\ nextId \in Ids
  /\ handleSubmitSends(schedule, clock - latency, customDateTime)
  /\ LET data == [user_id |-> u, title |-> TitleOf(nextId),
                  type |-> TypeOf(nextId),
                  schedule_cron |-> handleSubmitCron(schedule),
                  next_run_at |->
                    handleSubmitNextRun(schedule, clock - latency, customDateTime),
                  active |-> TRUE]
     IN  reminders' = createReminder(reminders, nextId, data)
  /\ createdAs' = [i \in DOMAIN createdAs \cup {nextId} |->
                     IF i = nextId
                       THEN [id |-> nextId, user_id |-> u, at |-> clock]
                       ELSE createdAs[i]]
  /\ nextId' = nextId + 1
  /\ UNCHANGED <<ownerOps, lastPut>>
  /\ UNCHANGED <<clock, started, alive, pc, now, dueReminders, idx, err,
                 emitted, written>>
  /\ UNCHANGED calcVars
  /\ UNCHANGED appVars

\* the JSON bodies of the PUT requests: the toggle of the reminders page,
\* an edit of next_run_at, and a body that names another owner
PutBodies ==
  {[active |-> TRUE], [active |-> FALSE], [next_run_at |-> clock + 1]}
    \cup {[user_id |-> u] : u \in Users}

\* PUT /api/reminders/:id: the body goes to storage.updateReminder as it is
PutReminder(u, id, updates) ==
  /\ alive
  /\ ownerOps < MaxOwnerOps
  /\ reminders' = updateReminder(reminders, id, updates)
  /\ ownerOps' = ownerOps + 1
  /\ lastPut' = [id |-> id, updates |-> updates]
  /\ UNCHANGED <<createdAs, nextId>>
  /\ UNCHANGED <<clock, started, alive, pc, now, dueReminders, idx, err,
                 emitted, written>>
  /\ UNCHANGED calcVars
  /\ UNCHANGED appVars

\* DELETE /api/reminders/:id
DeleteReminder(u, id) ==
  /\ alive
  /\ ownerOps < MaxOwnerOps
  /\ id \in DOMAIN reminders
  /\ reminders' = deleteReminder(reminders, id)
  /\ ownerOps' = ownerOps + 1
  /\ UNCHANGED <<createdAs, nextId, lastPut>>
  /\ UNCHANGED <<clock, started, alive, pc, now, dueReminders, idx, err,
                 emitted, written>>
  /\ UNCHANGED calcVars
  /\ UNCHANGED appVars

\* a server that has been up for MaxTicks - 1 minutes with an empty table:
\* the earlier ticks found nothing and returned, one cron firing is left
InitOwner ==
  /\ reminders = << >>
  /\ clock = StartClock
  /\ started = MaxTicks - 1
  /\ alive = TRUE
  /\ pc = [t \in Ticks |-> IF t < MaxTicks THEN "done" ELSE "idle"]
  /\ now = [t \in Ticks |->
              IF t < MaxTicks
                THEN StartClock - (MaxTicks - 1 - t) * UnitsPerMinute ELSE 0]
  /\ dueReminders = [t \in Ticks |-> <<>>]
  /\ idx = [t \in Ticks |-> 0]
  /\ err = [t \in Ticks |-> "none"]
  /\ emitted = {}
  /\ written = {}
  /\ CalcIdle
  /\ OwnerIdle
  /\ AppIdle

NextOwner ==
  \/ \E t \in Ticks :
       \/ CronFire(t)
       \/ QueryOk(t)
       \/ QueryFail(t)
       \/ Emit(t)
       \/ EmitFail(t)
       \/ WriteOk(t)
       \/ WriteFail(t)
  \/ \E u \in Users, schedule \in Schedules, latency \in Latencies,
        customDateTime \in CustomTimes :
       PostReminder(u, schedule, latency, customDateTime)
  \/ \E u \in Users, id \in Ids, updates \in PutBodies :
       PutReminder(u, id, updates)
  \/ \E u \in Users, id \in Ids : DeleteReminder(u, id)

SpecOwner == InitOwner /\ [][NextOwner]_vars

\* C18: after any sequence of create, PUT, toggle and tick operations every
\* reminder's id and user_id equal the values assigned at creation.
C18_IdAndOwnerImmutable ==
  \A i \in DOMAIN reminders :
    /\ i \in DOMAIN createdAs
    /\ reminders[i].id = createdAs[i].id
    /\ reminders[i].user_id = createdAs[i].user_id

\* a PUT whose body names another owner was handled for a row that a tick
\* has written too
C18_Witness ==
  \E i \in DOMAIN reminders :
    /\ lastPut.id = i
    /\ DOMAIN lastPut.updates = {"user_id"}
    /\ lastPut.updates.user_id # createdAs[i].user_id
    /\ \E w \in written : w.id = i

\* C19: every reminder that has not fired yet has a next_run_at at or after
\* the time the server created it, for every create request the server
\* accepts.
C19_NextRunNotBeforeCreation ==
  \A i \in DOMAIN reminders :
    (\A e \in emitted : e.id # i) =>
      reminders[i].next_run_at >= createdAs[i].at

\* C22: no scheduler step removes a row: the set of stored reminder ids is
\* the same before and after every step of a tick, and a step that removes
\* an id is the handling of an owner's DELETE request.
C22_TickNeverRemoves ==
  [][/\ (pc' # pc) => (DOMAIN reminders' = DOMAIN reminders)
     /\ ~(DOMAIN reminders \subseteq DOMAIN reminders') =>
          /\ pc' = pc
          /\ written' = written
          /\ ownerOps' = ownerOps + 1]_vars

\* C22 witness: a tick has fired and deactivated a one-time reminder, which
\* is still stored, and an owner's DELETE has removed another reminder.
C22_Witness ==
  /\ \E w \in written :
       /\ w.id \in DOMAIN reminders
       /\ reminders[w.id].schedule_cron = "once"
       /\ reminders[w.id].active = FALSE
  /\ \E i \in DOMAIN createdAs : i \notin DOMAIN reminders

\* C26: a one-time ('once') reminder has its due-event published at most
\* once over the whole run, across all ticks (no owner sets it active again
\* in this specification).
C26_OncePublishedAtMostOnce ==
  \A i \in DOMAIN reminders :
    reminders[i].schedule_cron = "once" =>
      Cardinality({e \in emitted : e.id = i}) <= 1

\* ------------------------------------- scheduler after missed ticks
\* the server comes up again three weeks later, a Monday at 08:59
MissedStart == StartClock + 21 * UnitsPerDay

\* next_run_at values found in the table then: three hours and three weeks
\* before the first boundary
MissedRuns ==
  {NextBoundary(MissedStart) - 3 * UnitsPerHour, FirstBoundary}

InitMissed ==
  /\ \E f \in [Ids -> [schedule_cron : Crons, next_run_at : MissedRuns,
                         active : BOOLEAN]] :
       reminders = [i \in Ids |-> Row(i, f[i])]
  /\ clock = MissedStart
  /\ started = 0
  /\ alive = TRUE
  /\ pc = [t \in Ticks |-> "idle"]
  /\ now = [t \in Ticks |-> 0]
  /\ dueReminders = [t \in Ticks |-> <<>>]
  /\ idx = [t \in Ticks |-> 0]
  /\ err = [t \in Ticks |-> "none"]
  /\ emitted = {}
  /\ written = {}
  /\ CalcIdle
  /\ OwnerIdle
  /\ AppIdle

SpecMissed == InitMissed /\ [][Next]_vars

\* C27: a recurring reminder that is overdue by several periods is
\* published once by the tick that finds it (one emit per returned row, every
\* returned row emitted when the tick returns) and the tick's update then
\* schedules it strictly after the tick's now, so the missed periods are not
\* replayed.
C27_OverdueFiredOnce ==
  [][\A t \in Ticks :
       /\ (pc[t] = "emit" /\ pc'[t] = "write") =>
            \A e \in emitted : ~(e.tick = t /\ e.id = Current(t).id)
       /\ (UpdateApplied(t)
             /\ Current(t).schedule_cron \notin {"once", "custom"}) =>
            /\ \E e \in emitted : e.tick = t /\ e.id = Current(t).id
            /\ reminders'[Current(t).id].next_run_at > now[t]
       /\ pc'[t] = "done" =>
            \A k \in DOMAIN dueReminders'[t] :
              \E e \in emitted' :
                e.tick = t /\ e.id = dueReminders'[t][k].id]_vars

\* C27 witness: a daily reminder three weeks overdue was published by one
\* tick only, which has returned, and now runs next after that tick's now.
C27_Witness ==
  \E t \in Ticks : \E k \in DOMAIN dueReminders[t] :
    LET row == dueReminders[t][k]
    IN  /\ pc[t] = "done"
        /\ row.schedule_cron = DAILY
        /\ row.next_run_at + 14 * UnitsPerDay < now[t]
        /\ {e.tick : e \in {f \in emitted : f.id = row.id}} = {t}
        /\ reminders[row.id].next_run_at > now[t]
        /\ reminders[row.id].next_run_at <= now[t] + UnitsPerDay

\* the step in which tick t hands the event of the row at idx to socket.io
EventPublished(t) == pc[t] = "emit" /\ pc'[t] = "write"

\* C28: under every interleaving of owner requests with a running tick, no
\* event is published for a reminder once the owner's deactivation or
\* deletion of it is in the store, and no scheduler write makes an inactive
\* reminder active.
C28_NoEventAfterDeactivation ==
  [][\A t \in Ticks :
       /\ EventPublished(t) =>
            /\ Current(t).id \in DOMAIN reminders
            /\ reminders[Current(t).id].active = TRUE
       /\ UpdateApplied(t) =>
            \A i \in DOMAIN reminders' :
              /\ i \in DOMAIN reminders
              /\ reminders'[i].active => reminders[i].active]_vars

\* C28 as amended: an owner request that is in the store when the tick's
\* due-query is answered is honoured (the query returns only rows stored
\* and active at that moment, and the tick publishes only for rows of its
\* result); a row deactivated or deleted later is still published by that
\* tick; no scheduler write makes an inactive reminder active or stores a
\* deleted one again.
C28_OwnerRequestBeforeQueryHonoured ==
  [][\A t \in Ticks :
       /\ QueryAnswered(t) =>
            \A k \in DOMAIN dueReminders'[t] :
              /\ dueReminders'[t][k].id \in DOMAIN reminders
              /\ reminders[dueReminders'[t][k].id].active = TRUE
       /\ EventPublished(t) =>
            \A e \in emitted' \ emitted :
              /\ e.tick = t
              /\ e.id \in RowIds(dueReminders[t])
       /\ UpdateApplied(t) =>
            \A i \in DOMAIN reminders' :
              /\ i \in DOMAIN reminders
              /\ reminders'[i].active => reminders[i].active]_vars

\* C28 witness: the owner deactivated an hourly reminder that the tick's
\* due-query had returned; the tick has published and rescheduled it, and
\* it is still inactive.
C28_Witness ==
  \E e \in emitted : \E w \in written :
    /\ e.id = w.id
    /\ e.tick = w.tick
    /\ lastPut.id = e.id
    /\ lastPut.updates = [active |-> FALSE]
    /\ e.id \in DOMAIN reminders
    /\ reminders[e.id].schedule_cron = HOURLY
    /\ reminders[e.id].active = FALSE
    /\ reminders[e.id].next_run_at > now[e.tick]

\* ------------------------------------------- the reminder form alone
\* the recurring options of the schedule select
RecurringSchedules == {"hourly", "daily", "weekly"}

\* a form about to be submitted at formClock, and a calculateNextRun call
\* for the cron string the form stores and the same time
InitForm ==
  /\ formZone \in Zones
  /\ formSchedule \in RecurringSchedules
  /\ formClock \in CalcTimes
  /\ formNextRun = -1
  /\ calcCron = handleSubmitCron(formSchedule)
  /\ calcNow = formClock
  /\ calcResult = -1
  /\ SchedIdle
  /\ OwnerIdle
  /\ ChatIdle
  /\ SmsIdle

\* Reminders.handleSubmit for a recurring schedule
SubmitReminderForm ==
  /\ formNextRun = -1
  /\ formNextRun' =
       handleSubmitNextRunIn(formZone, formSchedule, formClock, 0)
  /\ UNCHANGED <<formZone, formSchedule, formClock>>
  /\ UNCHANGED calcVars
  /\ UNCHANGED schedVars
  /\ UNCHANGED ownerVars
  /\ UNCHANGED <<chatVars, smsVars>>

NextForm ==
  \/ SubmitReminderForm
  \/ CallCalculateNextRun

SpecForm == InitForm /\ [][NextForm]_vars

\* C29: for the hourly, daily and weekly schedules and every now, the
\* next_run_at the reminder form computes equals what calculateNextRun
\* returns for the cron string the form stores and the same now.
C29_FormAgreesWithCalculateNextRun ==
  (formNextRun # -1 /\ calcResult # -1) => formNextRun = calcResult

\* --------------------------------------- TwilioService.sendEmergencyAlert
\* the contacts a user may have: two with a phone number, one without
ContactPool ==
  {[name |-> "Sarah Johnson", phone |-> "555-0101"],
   [name |-> "Dr. Smith", phone |-> "555-0202"],
   [name |-> "Neighbour", phone |-> ""]}

\* the emergencyContacts arrays passed in: up to MaxContacts contacts
ContactLists ==
  UNION {[1 .. n -> ContactPool] : n \in 0 .. MaxContacts}

NotConfigured ==
  [contact |-> "system", success |-> FALSE, error |-> "Twilio not configured"]

\* a service constructed with or without the three Twilio variables, and a
\* call of sendEmergencyAlert about to be made
InitSms ==
  /\ smsConfigured \in BOOLEAN
  /\ smsContacts \in ContactLists
  /\ smsPc = "idle"
  /\ smsIdx = 0
  /\ smsResults = << >>
  /\ smsSends = << >>
  /\ smsReturn = << >>
  /\ CalcIdle
  /\ SchedIdle
  /\ OwnerIdle
  /\ FormIdle
  /\ ChatIdle

\* sendEmergencyAlert is entered: without client or config it returns the
\* single 'system' entry, otherwise the loop over the contacts starts
AlertCalled ==
  /\ smsPc = "idle"
  /\ IF ~smsConfigured
       THEN /\ smsReturn' = [success |-> FALSE, results |-> <<NotConfigured>>]
            /\ smsPc' = "returned"
            /\ smsIdx' = smsIdx
       ELSE /\ smsReturn' = smsReturn
            /\ smsPc' = "loop"
            /\ smsIdx' = 1
  /\ UNCHANGED <<smsConfigured, smsContacts, smsResults, smsSends>>
  /\ UNCHANGED <<calcVars, schedVars, ownerVars, formVars, chatVars>>

\* if (!contact.phone): a failed result is pushed, continue
ContactWithoutPhone ==
  /\ smsPc = "loop"
  /\ smsIdx <= Len(smsContacts)
  /\ smsContacts[smsIdx].phone = ""
  /\ smsResults' = Append(smsResults,
                           [contact |-> smsContacts[smsIdx].name,
                            success |-> FALSE,
                            error |-> "No phone number available"])
  /\ smsIdx' = smsIdx + 1
  /\ UNCHANGED <<smsConfigured, smsContacts, smsPc, smsSends, smsReturn>>
  /\ UNCHANGED <<calcVars, schedVars, ownerVars, formVars, chatVars>>

\* await client.messages.create(...) resolves: a successful result is pushed
MessageCreated ==
  /\ smsPc = "loop"
  /\ smsIdx <= Len(smsContacts)
  /\ smsContacts[smsIdx].phone # ""
  /\ smsSends' = Append(smsSends,
                         [to |-> smsContacts[smsIdx].phone, sent |-> TRUE])
  /\ smsResults' = Append(smsResults,
                           [contact |-> smsContacts[smsIdx].name,
                            success |-> TRUE])
  /\ smsIdx' = smsIdx + 1
  /\ UNCHANGED <<smsConfigured, smsContacts, smsPc, smsReturn>>
  /\ UNCHANGED <<calcVars, schedVars, ownerVars, formVars, chatVars>>

MessageCreateThrowsAndStops ==
  /\ smsPc = "loop"
  /\ smsIdx <= Len(smsContacts)
  /\ smsContacts[smsIdx].phone # ""
  /\ smsSends' = Append(smsSends,
                         [to |-> smsContacts[smsIdx].phone, sent |-> FALSE])
  /\ smsResults' = Append(smsResults,
                           [contact |-> smsContacts[smsIdx].name,
                            success |-> FALSE, error |-> "error.message"])
  /\ smsIdx' = Len(smsContacts) + 1
  /\ UNCHANGED <<smsConfigured, smsContacts, smsPc, smsReturn>>
  /\ UNCHANGED <<calcVars, schedVars, ownerVars, formVars, chatVars>>

\* await client.messages.create(...) rejects: the catch block pushes a
\* failed result and the loop goes on
MessageCreateThrows ==
  /\ smsPc = "loop"
  /\ smsIdx <= Len(smsContacts)
  /\ smsContacts[smsIdx].phone # ""
  /\ smsSends' = Append(smsSends,
                         [to |-> smsContacts[smsIdx].phone, sent |-> FALSE])
  /\ smsResults' = Append(smsResults,
                           [contact |-> smsContacts[smsIdx].name,
                            success |-> FALSE, error |-> "error.message"])
  /\ smsIdx' = smsIdx + 1
  /\ UNCHANGED <<smsConfigured, smsContacts, smsPc, smsReturn>>
  /\ UNCHANGED <<calcVars, schedVars, ownerVars, formVars, chatVars>>

\* results.filter(r => r.success).length
successCount(results) ==
  Cardinality({k \in DOMAIN results : results[k].success})

\* after the loop: return { success: successCount > 0, results }
AlertReturns ==
  /\ smsPc = "loop"
  /\ smsIdx > Len(smsContacts)
  /\ smsReturn' = [success |-> successCount(smsResults) > 0,
                   results |-> smsResults]
  /\ smsPc' = "returned"
  /\ UNCHANGED <<smsConfigured, smsContacts, smsIdx, smsResults, smsSends>>
  /\ UNCHANGED <<calcVars, schedVars, ownerVars, formVars, chatVars>>

NextSms ==
  \/ AlertCalled
  \/ ContactWithoutPhone
  \/ MessageCreated
  \/ MessageCreateThrows
  \/ AlertReturns

SpecSms == InitSms /\ [][NextSms]_vars

\* the positions of the contacts that have a phone number, in input order
RECURSIVE WithPhone(_)
WithPhone(contacts) ==
  IF contacts = << >>
    THEN << >>
    ELSE IF Head(contacts).phone # ""
           THEN <<Head(contacts).phone>> \o WithPhone(Tail(contacts))
           ELSE WithPhone(Tail(contacts))

\* C30: with Twilio configured, sendEmergencyAlert returns one result per
\* contact in input order; a contact without phone number, or whose send
\* throws, gets a failed result and the sends to the remaining contacts
\* still take place; the success flag is true exactly when at least one SMS
\* was sent.  Without configuration no send is attempted and the result is
\* the single failed 'system' entry with success false.
C30_OneResultPerContact ==
  smsPc = "returned" =>
    IF smsConfigured
      THEN /\ Len(smsReturn.results) = Len(smsContacts)
           /\ \A k \in DOMAIN smsContacts :
                /\ smsReturn.results[k].contact = smsContacts[k].name
                /\ smsContacts[k].phone = "" =>
                     smsReturn.results[k].success = FALSE
           /\ [k \in DOMAIN smsSends |-> smsSends[k].to] =
                WithPhone(smsContacts)
           /\ Cardinality({k \in DOMAIN smsReturn.results :
                             smsReturn.results[k].success}) =
                Cardinality({k \in DOMAIN smsSends : smsSends[k].sent})
           /\ smsReturn.success = (\E k \in DOMAIN smsSends : smsSends[k].sent)
      ELSE /\ smsSends = << >>
           /\ smsReturn.success = FALSE
           /\ Len(smsReturn.results) = 1
           /\ smsReturn.results[1].contact = "system"
           /\ smsReturn.results[1].success = FALSE

\* C30 witness: the send to the first contact threw, the second contact got
\* its SMS, and the call returned two results with success true.
C30_Witness ==
  /\ smsPc = "returned"
  /\ smsConfigured
  /\ Len(smsSends) = 2
  /\ smsSends[1].sent = FALSE
  /\ smsSends[2].sent = TRUE
  /\ smsReturn.success = TRUE
  /\ smsReturn.results[1].success = FALSE
  /\ smsReturn.results[2].success = TRUE

\* ------------------------------------------------- liveness of the scheduler
\* active reminders that are due at the start
LiveRuns == {StartClock}

LiveCrons == {"once", HOURLY}

InitLive ==
  /\ \E f \in [Ids -> [schedule_cron : LiveCrons, next_run_at : LiveRuns,
                         active : {TRUE}]] :
       reminders = [i \in Ids |-> Row(i, f[i])]
  /\ clock = StartClock
  /\ started = 0
  /\ alive = TRUE
  /\ pc = [t \in Ticks |-> "idle"]
  /\ now = [t \in Ticks |-> 0]
  /\ dueReminders = [t \in Ticks |-> <<>>]
  /\ idx = [t \in Ticks |-> 0]
  /\ err = [t \in Ticks |-> "none"]
  /\ emitted = {}
  /\ written = {}
  /\ CalcIdle
  /\ OwnerIdle
  /\ AppIdle

\* an awaited promise of the callback settles: it resolves or it rejects
Settle(t) ==
  \/ QueryOk(t)
  \/ QueryFail(t)
  \/ Emit(t)
  \/ EmitFail(t)
  \/ WriteOk(t)
  \/ WriteFail(t)

\* node-cron calls the callback at every minute boundary, and every awaited
\* promise settles
SpecLive ==
  /\ InitLive
  /\ [][Next]_vars
  /\ \A t \in Ticks : WF_vars(CronFire(t)) /\ WF_vars(Settle(t))

\* reminder i is active and due while k ticks have started and none of them
\* is still running
DueAfter(i, k) ==
  /\ started = k
  /\ \A t \in 1 .. k : ~InFlight(t)
  /\ reminders[i].active
  /\ reminders[i].next_run_at <= clock

FiredAfter(i, k) == \E e \in emitted : e.id = i /\ e.tick > k

\* the due-query of tick t has been answered
QueryWasAnswered(t) ==
  pc[t] \in {"emit", "write", "done", "caught"} /\ err[t] # "query"

\* tick t ran to its end: its query, its emits and its updates succeeded
RanToEnd(t) == pc[t] = "done" /\ err[t] = "none"

Let(value, body(_)) == CHOOSE result \in {body(v) : v \in {value}} : TRUE

\* a text is the sequence of its characters
IsSpace(c) == c \in {" ", "\t"}

RECURSIVE trimStart(_)
trimStart(s) ==
  IF s # << >> /\ IsSpace(Head(s)) THEN trimStart(Tail(s)) ELSE s

RECURSIVE trimEnd(_)
trimEnd(s) ==
  IF s # << >> /\ IsSpace(s[Len(s)])
    THEN trimEnd(SubSeq(s, 1, Len(s) - 1))
    ELSE s

\* String.prototype.trim
trim(s) == trimEnd(trimStart(s))

LowerOf(c) ==
  CASE c = "A" -> "a"
    [] c = "B" -> "b"
    [] c = "C" -> "c"
    [] c = "D" -> "d"
    [] c = "E" -> "e"
    [] c = "F" -> "f"
    [] c = "G" -> "g"
    [] c = "H" -> "h"
    [] c = "I" -> "i"
    [] c = "J" -> "j"
    [] c = "K" -> "k"
    [] c = "L" -> "l"
    [] c = "M" -> "m"
    [] c = "N" -> "n"
    [] c = "O" -> "o"
    [] c = "P" -> "p"
    [] c = "Q" -> "q"
    [] c = "R" -> "r"
    [] c = "S" -> "s"
    [] c = "T" -> "t"
    [] c = "U" -> "u"
    [] c = "V" -> "v"
    [] c = "W" -> "w"
    [] c = "X" -> "x"
    [] c = "Y" -> "y"
    [] c = "Z" -> "z"
    [] OTHER -> c

\* String.prototype.toLowerCase
RECURSIVE toLowerCase(_)
toLowerCase(s) ==
  IF s = << >> THEN << >> ELSE <<LowerOf(Head(s))>> \o toLowerCase(Tail(s))

\* String.prototype.includes
includes(s, sub) ==
  \E i \in 0 .. (Len(s) - Len(sub)) : SubSeq(s, i + 1, i + Len(sub)) = sub

includesAny(s, subs) == \E sub \in subs : includes(s, sub)

\* the keywords of the branches of processQuery, in the order of the branches
MedicationWords ==
  {<<"m", "e", "d", "i", "c", "a", "t", "i", "o", "n">>,
   <<"m", "e", "d", "i", "c", "i", "n", "e">>,
   <<"p", "i", "l", "l">>,
   <<"d", "r", "u", "g">>}

PeopleWords ==
  {<<"w", "h", "o", " ", "i", "s">>,
   <<"p", "e", "o", "p", "l", "e">>,
   <<"c", "o", "n", "t", "a", "c", "t">>,
   <<"p", "e", "r", "s", "o", "n">>,
   <<"f", "a", "m", "i", "l", "y">>,
   <<"f", "r", "i", "e", "n", "d">>}

ReminderWords ==
  {<<"w", "h", "e", "n">>,
   <<"r", "e", "m", "i", "n", "d", "e", "r">>,
   <<"s", "c", "h", "e", "d", "u", "l", "e">>,
   <<"a", "p", "p", "o", "i", "n", "t", "m", "e", "n", "t">>}

ObjectWords ==
  {<<"w", "h", "a", "t", " ", "i", "s">>,
   <<"o", "b", "j", "e", "c", "t">>,
   <<"t", "h", "i", "n", "g">>,
   <<"i", "t", "e", "m">>,
   <<"i", "d", "e", "n", "t", "i", "f", "i", "e", "d">>}

JournalWords ==
  {<<"r", "e", "m", "e", "m", "b", "e", "r">>,
   <<"m", "e", "m", "o", "r", "y">>,
   <<"j", "o", "u", "r", "n", "a", "l">>,
   <<"w", "r", "o", "t", "e">>,
   <<"s", "a", "i", "d">>,
   <<"t", "h", "o", "u", "g", "h", "t">>,
   <<"n", "o", "t", "e", "d">>}

EmergencyWords ==
  {<<"e", "m", "e", "r", "g", "e", "n", "c", "y">>,
   <<"h", "e", "l", "p">>,
   <<"a", "l", "e", "r", "t">>}

HelpWords ==
  {<<"h", "o", "w">>,
   <<"w", "h", "a", "t", " ", "c", "a", "n", " ", "y", "o", "u">>,
   <<"h", "e", "l", "p">>}

\* array.slice(0, 5)
FirstFive(list) == SubSeq(list, 1, IF Len(list) > 5 THEN 5 ELSE Len(list))

AndMore(list) == IF Len(list) > 5 THEN <<<<"...and more">>>> ELSE << >>

\* the medication branch: one line per medication, name and dosage, the
\* notes when there are any
medicationLine(med) ==
  <<"- ", med.name, " (", med.dosage, ")">>
    \o (IF med.notes # "" THEN <<": ", med.notes>> ELSE << >>)

medicationReply(meds) ==
  IF Len(meds) = 0
    THEN [text |-> "You don't have any medications recorded yet",
          items |-> << >>]
    ELSE [text |-> "Here are your medications",
          items |-> [k \in DOMAIN meds |-> medicationLine(meds[k])]]

WhoIs == <<"w", "h", "o", " ", "i", "s">>

\* the last position of the run of whitespace that holds position j
RECURSIVE spacesEnd(_, _)
spacesEnd(s, j) ==
  IF j < Len(s) /\ IsSpace(s[j + 1]) THEN spacesEnd(s, j + 1) ELSE j

\* /who is\s+(.+?)(\?|$)/ tried at position i: where the group starts, 0
\* when the pattern does not match there
groupStartAt(s, i) ==
  IF i + 6 <= Len(s) /\ SubSeq(s, i, i + 5) = WhoIs /\ IsSpace(s[i + 6])
    THEN LET e == spacesEnd(s, i + 6)
         IN  IF e < Len(s) THEN e + 1 ELSE IF e > i + 6 THEN e ELSE 0
    ELSE 0

\* the lazy group ends before the first '?' that follows its first character,
\* or at the end of the text
groupEnd(s, g) ==
  CHOOSE k \in g .. Len(s) :
    /\ k = Len(s) \/ s[k + 1] = "?"
    /\ \A j \in g .. (k - 1) : s[j + 1] # "?"

\* lowerQuery.match(/who is\s+(.+?)(\?|$)/): << >> for null, else the group
nameMatch(s) ==
  LET starts == {i \in 1 .. Len(s) : groupStartAt(s, i) # 0}
  IN  IF starts = {}
        THEN << >>
        ELSE LET i == CHOOSE a \in starts : \A b \in starts : a <= b
                 g == groupStartAt(s, i)
             IN  <<SubSeq(s, g, groupEnd(s, g))>>

\* contacts.find(...): the first position whose name holds the searched name
\* or is held by it, 0 when there is none
findContact(list, searchName) ==
  LET hits == {k \in DOMAIN list :
                 \/ includes(toLowerCase(list[k].name), searchName)
                 \/ includes(searchName, toLowerCase(list[k].name))}
  IN  IF hits = {} THEN 0 ELSE CHOOSE a \in hits : \A b \in hits : a <= b

peopleFound(list, match) ==
  Let(findContact(list, trim(match[1])), LAMBDA found :
    IF found # 0
      THEN [text |-> "is your",
            items |-> <<list[found].name, list[found].relation>>
              \o (IF list[found].phone # ""
                    THEN <<list[found].phone>> ELSE << >>)
              \o (IF list[found].email # ""
                    THEN <<list[found].email>> ELSE << >>)]
      ELSE [text |-> "I couldn't find anyone named",
            items |-> <<match[1]>>])

\* the people branch: the contact asked for by name, else the first five
peopleReply(lowerQuery, list) ==
  Let(nameMatch(lowerQuery), LAMBDA match :
    IF match # << >>
      THEN peopleFound(list, match)
      ELSE IF Len(list) = 0
             THEN [text |-> "You don't have any contacts saved yet",
                   items |-> << >>]
             ELSE [text |-> "Here are some people you know",
                   items |-> [k \in DOMAIN FirstFive(list) |->
                                <<"- ", list[k].name, " (",
                                  list[k].relation, ")">>]
                               \o AndMore(list)])

reminderReply(list) ==
  IF Len(list) = 0
    THEN [text |-> "You don't have any reminders set up yet", items |-> << >>]
    ELSE [text |-> "Here are your reminders",
          items |-> [k \in DOMAIN FirstFive(list) |->
                       <<"- ", list[k].title, " (", list[k].type, ")">>]
                      \o AndMore(list)]

objectReply(list) ==
  IF Len(list) = 0
    THEN [text |-> "You haven't identified any objects yet", items |-> << >>]
    ELSE [text |-> "Here are some objects you've identified",
          items |-> [k \in DOMAIN FirstFive(list) |->
                       <<"- ", list[k].user_tag>>
                         \o (IF list[k].notes # ""
                               THEN <<": ", list[k].notes>> ELSE << >>)
                         \o (IF list[k].transcription # ""
                               THEN <<" (Voice note: ", list[k].transcription>>
                               ELSE << >>)]
                      \o AndMore(list)]

\* the journal branch; the search inside the journal texts is entered only
\* with journal entries, which the data of this model does not hold
journalReply(journalEntries, memoryItems) ==
  IF Len(journalEntries) + Len(memoryItems) = 0
    THEN [text |-> "You haven't recorded any memories or journal entries yet",
          items |-> << >>]
    ELSE [text |-> "You have journal entries and memory items saved",
          items |-> << >>]

emergencyReply ==
  [text |-> "If you need emergency help, use the red Emergency button",
   items |-> << >>]

helpReply == [text |-> "I can help you remember", items |-> << >>]

defaultReply == [text |-> "I'm here to help you remember!", items |-> << >>]

processQueryPeopleFirst(query, data) ==
  Let(toLowerCase(query), LAMBDA lowerQuery :
      IF includesAny(lowerQuery, PeopleWords)
        THEN peopleReply(lowerQuery, data.contacts)
      ELSE IF includesAny(lowerQuery, MedicationWords)
        THEN medicationReply(data.medications)
      ELSE IF includesAny(lowerQuery, ReminderWords)
        THEN reminderReply(data.reminders)
      ELSE IF includesAny(lowerQuery, ObjectWords)
        THEN objectReply(data.objectRecognitions)
      ELSE IF includesAny(lowerQuery, JournalWords)
        THEN journalReply(data.journalEntries, data.memoryItems)
      ELSE IF includesAny(lowerQuery, EmergencyWords)
        THEN emergencyReply
      ELSE IF includesAny(lowerQuery, HelpWords)
        THEN helpReply
      ELSE defaultReply)

\* Chatbot.processQuery: the first branch whose keyword the lower-cased
\* query holds decides the reply
processQuery(query, data) ==
  Let(toLowerCase(query), LAMBDA lowerQuery :
      IF includesAny(lowerQuery, MedicationWords)
        THEN medicationReply(data.medications)
      ELSE IF includesAny(lowerQuery, PeopleWords)
        THEN peopleReply(lowerQuery, data.contacts)
      ELSE IF includesAny(lowerQuery, ReminderWords)
        THEN reminderReply(data.reminders)
      ELSE IF includesAny(lowerQuery, ObjectWords)
        THEN objectReply(data.objectRecognitions)
      ELSE IF includesAny(lowerQuery, JournalWords)
        THEN journalReply(data.journalEntries, data.memoryItems)
      ELSE IF includesAny(lowerQuery, EmergencyWords)
        THEN emergencyReply
      ELSE IF includesAny(lowerQuery, HelpWords)
        THEN helpReply
      ELSE defaultReply)

\* what the queries of the page return
mockMedications ==
  <<[name |-> "Aspirin", dosage |-> "100mg", notes |-> "Daily blood thinner"],
    [name |-> "Lisinopril", dosage |-> "10mg", notes |-> "Blood pressure"]>>

mockContacts ==
  <<[name |-> <<"S", "a", "r", "a", "h", " ", "J", "o", "h", "n", "s", "o", "n">>,
     relation |-> "daughter", phone |-> "555-0101",
     email |-> "sarah@example.com"],
    [name |-> <<"D", "r", ".", " ", "S", "m", "i", "t", "h">>,
     relation |-> "doctor", phone |-> "555-0202",
     email |-> "doctor@example.com"]>>

mockReminders ==
  <<[title |-> "Doctor Appointment", type |-> "appointment"],
    [title |-> "Take Medications", type |-> "medication"]>>

mockObjectRecognitions ==
  <<[user_tag |-> "Car Keys", notes |-> "Always in kitchen drawer",
     transcription |-> "These are my car keys for the Honda"],
    [user_tag |-> "Wallet", notes |-> "Brown leather", transcription |-> ""]>>

\* the data processQuery reads, with the given medications
chatData(meds) ==
  [medications |-> meds, contacts |-> mockContacts,
   reminders |-> mockReminders,
   objectRecognitions |-> mockObjectRecognitions,
   journalEntries |-> << >>, memoryItems |-> << >>]

\* the values the medications query can hold: the default [], one
\* medication, two medications
MedLists == {SubSeq(mockMedications, 1, n) : n \in 0 .. 2}

suggestedQuestions ==
  {<<"W", "h", "a", "t", " ", "m", "e", "d", "i", "c", "a", "t", "i", "o", "n", "s", " ", "d", "o", " ", "I", " ", "t", "a", "k", "e", "?">>,
   <<"W", "h", "o", " ", "a", "r", "e", " ", "m", "y", " ", "e", "m", "e", "r", "g", "e", "n", "c", "y", " ", "c", "o", "n", "t", "a", "c", "t", "s", "?">>,
   <<"W", "h", "a", "t", " ", "a", "r", "e", " ", "m", "y", " ", "r", "e", "m", "i", "n", "d", "e", "r", "s", "?">>,
   <<"W", "h", "a", "t", " ", "o", "b", "j", "e", "c", "t", "s", " ", "h", "a", "v", "e", " ", "I", " ", "i", "d", "e", "n", "t", "i", "f", "i", "e", "d", "?">>}

\* the texts a user types into the input field
Texts ==
  {<< >>,
   <<" ", " ">>,
   <<"P", "I", "L", "L", " ", "c", "o", "n", "t", "a", "c", "t">>,
   <<"w", "h", "o", " ", "i", "s", " ", "s", "a", "r", "a", "h", "?">>,
   <<"h", "e", "l", "l", "o">>}

Welcome ==
  [role |-> "assistant",
   content |-> [text |-> "Hello! I'm your memory assistant", items |-> << >>]]

\* disabled={isThinking}
InputDisabled == isThinking

\* disabled={!input.trim() || isThinking}
SendDisabled == trim(input) = << >> \/ isThinking

\* the page is mounted: the welcome message, an empty input, the queries
\* not answered yet
InitChat ==
  /\ messages = <<Welcome>>
  /\ input = << >>
  /\ isThinking = FALSE
  /\ timers = << >>
  /\ medications = << >>
  /\ CalcIdle
  /\ SchedIdle
  /\ OwnerIdle
  /\ FormIdle
  /\ SmsIdle

\* onChange of the input field
ChangeInput(text) ==
  /\ ~InputDisabled
  /\ text # input
  /\ input' = text
  /\ UNCHANGED <<messages, isThinking, timers, medications>>
  /\ UNCHANGED <<calcVars, schedVars, ownerVars, formVars, smsVars>>

\* a click on a suggested question, shown while the welcome message is the
\* only message
ClickSuggestion(question) ==
  /\ Len(messages) = 1
  /\ question # input
  /\ input' = question
  /\ UNCHANGED <<messages, isThinking, timers, medications>>
  /\ UNCHANGED <<calcVars, schedVars, ownerVars, formVars, smsVars>>

\* the medications query is answered or refetched
MedicationsFetched(list) ==
  /\ list # medications
  /\ medications' = list
  /\ UNCHANGED <<messages, input, isThinking, timers>>
  /\ UNCHANGED <<calcVars, schedVars, ownerVars, formVars, smsVars>>

\* the form is submitted through the enabled send button: handleSubmit
\* appends the user message, clears the input, sets isThinking and starts
\* the timeout, whose callback keeps the input and the data of this render
ChatbotHandleSubmit ==
  /\ ~SendDisabled
  /\ Len(messages) + 2 <= MaxChatMessages
  /\ IF trim(input) = << >>
       THEN UNCHANGED <<messages, input, isThinking, timers>>
       ELSE /\ messages' = Append(messages, [role |-> "user", content |-> input])
            /\ input' = << >>
            /\ isThinking' = TRUE
            /\ timers' = Append(timers, [input |-> input,
                                         medications |-> medications])
  /\ UNCHANGED medications
  /\ UNCHANGED <<calcVars, schedVars, ownerVars, formVars, smsVars>>

TimeoutFiresKeepThinking ==
  /\ timers # << >>
  /\ \E response \in {processQuery(Head(timers).input,
                                    chatData(Head(timers).medications))} :
       messages' = Append(messages, [role |-> "assistant",
                                     content |-> response])
  /\ isThinking' = isThinking
  /\ timers' = Tail(timers)
  /\ UNCHANGED <<input, medications>>
  /\ UNCHANGED <<calcVars, schedVars, ownerVars, formVars, smsVars>>

\* the 500 ms timeout fires: the reply to the kept input is appended and
\* isThinking is reset
TimeoutFires ==
  /\ timers # << >>
  /\ \E response \in {processQuery(Head(timers).input,
                                    chatData(Head(timers).medications))} :
       messages' = Append(messages, [role |-> "assistant",
                                     content |-> response])
  /\ isThinking' = FALSE
  /\ timers' = Tail(timers)
  /\ UNCHANGED <<input, medications>>
  /\ UNCHANGED <<calcVars, schedVars, ownerVars, formVars, smsVars>>

NextChat ==
  \/ \E text \in Texts : ChangeInput(text)
  \/ \E question \in suggestedQuestions : ClickSuggestion(question)
  \/ \E list \in MedLists : MedicationsFetched(list)
  \/ ChatbotHandleSubmit
  \/ TimeoutFires

\* a timeout that was set fires
SpecChat == InitChat /\ [][NextChat]_vars /\ WF_vars(TimeoutFires)

\* the step in which a user message, an assistant message is appended
UserMessageAppended ==
  /\ Len(messages') = Len(messages) + 1
  /\ messages'[Len(messages')].role = "user"

ReplyAppended ==
  /\ Len(messages') = Len(messages) + 1
  /\ messages'[Len(messages')].role = "assistant"

MedicationKeywords ==
  {<<"m", "e", "d", "i", "c", "a", "t", "i", "o", "n">>,
   <<"m", "e", "d", "i", "c", "i", "n", "e">>,
   <<"p", "i", "l", "l">>,
   <<"d", "r", "u", "g">>}

\* C24: for every query that holds a medication keyword (medication,
\* medicine, pill, drug; in any case), the reply is the 'no medications
\* recorded yet' message when the medication list is empty and otherwise the
\* 'Here are your medications' list with one line per medication holding its
\* name and dosage, whatever other keywords the query holds.
C24_MedicationReply ==
  [][(ReplyAppended /\ timers # << >>) =>
       LET asked == Head(timers).input
           meds == Head(timers).medications
           reply == messages'[Len(messages')].content
       IN  (\E w \in MedicationKeywords :
              \E i \in 0 .. (Len(asked) - Len(w)) :
                [k \in 1 .. Len(w) |-> LowerOf(asked[i + k])] = w) =>
             IF Len(meds) = 0
               THEN /\ reply.text = "You don't have any medications recorded yet"
                    /\ reply.items = << >>
               ELSE /\ reply.text = "Here are your medications"
                    /\ Len(reply.items) = Len(meds)
                    /\ \A k \in DOMAIN meds :
                         /\ reply.items[k][2] = meds[k].name
                         /\ reply.items[k][4] = meds[k].dosage]_vars

\* C24 witness: a query in upper case that also holds a people keyword got
\* the list of both medications.
C24_Witness ==
  \E k \in 2 .. Len(messages) :
    /\ messages[k].role = "assistant"
    /\ messages[k - 1].role = "user"
    /\ messages[k - 1].content = <<"P", "I", "L", "L", " ", "c", "o", "n", "t", "a", "c", "t">>
    /\ messages[k].content.text = "Here are your medications"
    /\ Len(messages[k].content.items) = 2

====
